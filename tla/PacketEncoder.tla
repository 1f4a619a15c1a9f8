---------------------------- MODULE PacketEncoder ----------------------------
(***************************************************************************)
(* encodePacket(): src/packets/encode.ts.  A packet is a record with the   *)
(* fields of its type in src/packets/types.ts; a field that is optional    *)
(* there and undefined is no field of the record.  Every encoder collects  *)
(* the calls of a first writer and copies its bytes behind the header.     *)
(***************************************************************************)
EXTENDS Properties

PacketType ==
    [CONNECT |-> 1, CONNACK |-> 2, PUBLISH |-> 3, PUBACK |-> 4, PUBREC |-> 5, PUBREL |-> 6,
     PUBCOMP |-> 7, SUBSCRIBE |-> 8, SUBACK |-> 9, UNSUBSCRIBE |-> 10, UNSUBACK |-> 11,
     PINGREQ |-> 12, PINGRESP |-> 13, DISCONNECT |-> 14, AUTH |-> 15]

ProtocolLevel == [v \in {"3.1.1", "5.0"} |-> IF v = "5.0" THEN 5 ELSE 4]

MQTT == <<77, 81, 84, 84>>

Has(packet, field) == field \in DOMAIN packet
Field(packet, field, default) == IF Has(packet, field) THEN packet[field] ELSE default
If(condition, calls) == IF condition THEN calls ELSE <<>>
Bit(condition, weight) == IF condition THEN weight ELSE 0

\* writeFixedHeader(), then the bytes of the first writer.
Headed(type, flags, body) ==
    WriteAll(<<Uint8(PacketType[type] * 16 + flags), Varint(Len(body)), body>>)
Frame(type, flags, calls) == Headed(type, flags, WriteAll(calls))

\* A section of properties, empty when the packet has none, in MQTT 5.0 only.
PropertiesOf(packet, version, Build(_)) ==
    IF version # "5.0" THEN <<>>
    ELSE IF Has(packet, "properties") THEN EncodeProperties(Build(packet.properties))
    ELSE EncodeEmptyProperties

\* Is a field of these set, and user properties not empty?
HasProperties(packet, fields) ==
    /\ Has(packet, "properties")
    /\ \E field \in fields \cap DOMAIN packet.properties :
          field = "userProperties" => packet.properties[field] # <<>>

EncodeConnect(packet, version) ==
    LET hasWill == Has(packet, "will")
        connectFlags == Bit(packet.cleanStart, 2)
                        + Bit(hasWill, 4)
                        + (IF hasWill THEN packet.will.qos * 8 + Bit(packet.will.retain, 32) ELSE 0)
                        + Bit(Has(packet, "password"), 64) + Bit(Has(packet, "username"), 128)
    IN Frame("CONNECT", 0,
          <<EncodeMqttString(MQTT), Uint8(ProtocolLevel[version]), Uint8(connectFlags),
            Uint16(packet.keepAlive)>>
          \o PropertiesOf(packet, version, BuildConnectProperties)
          \o <<EncodeMqttString(packet.clientId)>>
          \o If(hasWill, PropertiesOf(packet.will, version, BuildWillProperties)
                         \o <<EncodeMqttString(packet.will.topic),
                              EncodeMqttBinary(packet.will.payload)>>)
          \o If(Has(packet, "username"), <<EncodeMqttString(packet.username)>>)
          \o If(Has(packet, "password"), <<EncodeMqttBinary(packet.password)>>))

\* connackReturnCode311(): what MQTT 3.1.1 can say of a reason code.
ConnackReturnCode311(reasonCode) ==
    CASE reasonCode <= 5   -> reasonCode
      [] reasonCode = 132  -> 1    \* unsupported protocol version
      [] reasonCode = 133  -> 2    \* client identifier not valid
      [] reasonCode = 134  -> 4    \* bad user name or password
      [] reasonCode \in {135, 138, 140} -> 5   \* not authorized, banned, bad method
      [] OTHER -> 3                \* server unavailable

EncodeConnack(packet, version) ==
    Frame("CONNACK", 0,
       <<Uint8(Bit(packet.sessionPresent, 1)),
         Uint8(IF version = "5.0" THEN packet.reasonCode
               ELSE ConnackReturnCode311(packet.reasonCode))>>
       \o PropertiesOf(packet, version, BuildConnackProperties))

EncodePublish(packet, version) ==
    Frame("PUBLISH", Bit(packet.dup, 8) + packet.qos * 2 + Bit(packet.retain, 1),
       <<EncodeMqttString(packet.topic)>>
       \o If(packet.qos > 0 /\ Has(packet, "packetId"), <<Uint16(packet.packetId)>>)
       \o PropertiesOf(packet, version, BuildPublishProperties)
       \o <<packet.payload>>)

EncodePubAckAlways(packet, version) ==   \* mutated: the reason code is written, 0 too
    Frame(packet.type, Bit(packet.type = "PUBREL", 2),
       <<Uint16(packet.packetId), Uint8(Field(packet, "reasonCode", 0))>>
       \o If(version = "5.0" /\ HasProperties(packet, {"reasonString", "userProperties"}),
             EncodeProperties(BuildPubAckProperties(packet.properties))))

\* encodePubAckType(), for the four acknowledgements.
EncodePubAckType(packet, version) ==
    LET reasonCode == Field(packet, "reasonCode", 0)
        hasProperties == HasProperties(packet, {"reasonString", "userProperties"})
    IN Frame(packet.type, Bit(packet.type = "PUBREL", 2),
          <<Uint16(packet.packetId)>>
          \o If(version = "5.0" /\ (reasonCode # 0 \/ hasProperties),
                <<Uint8(reasonCode)>>
                \o If(hasProperties, EncodeProperties(BuildPubAckProperties(packet.properties)))))

EncodeSubscribe(packet, version) ==
    LET Options(options) ==
            IF version # "5.0" THEN options.qos
            ELSE options.qos + Bit(Field(options, "noLocal", FALSE), 4)
                 + Bit(Field(options, "retainAsPublished", FALSE), 8)
                 + Field(options, "retainHandling", 0) * 16
    IN Frame("SUBSCRIBE", 2,
          <<Uint16(packet.packetId)>>
          \o PropertiesOf(packet, version, BuildSubscribeProperties)
          \o FlattenSeq([i \in DOMAIN packet.subscriptions |->
                LET sub == packet.subscriptions[i]
                IN <<EncodeMqttString(sub.topicFilter), Uint8(Options(sub.options))>>]))

\* MQTT 3.1.1 has a single failure code.
EncodeSuback(packet, version) ==
    LET Code(code) == IF version # "5.0" /\ code >= 128 THEN 128 ELSE code
    IN Frame("SUBACK", 0,
          <<Uint16(packet.packetId)>>
          \o PropertiesOf(packet, version, BuildSubackProperties)
          \o [i \in DOMAIN packet.reasonCodes |-> Uint8(Code(packet.reasonCodes[i]))])

EncodeUnsubscribe(packet, version) ==
    Frame("UNSUBSCRIBE", 2,
       <<Uint16(packet.packetId)>>
       \o PropertiesOf(packet, version, BuildUnsubscribeProperties)
       \o [i \in DOMAIN packet.topicFilters |-> EncodeMqttString(packet.topicFilters[i])])

EncodeUnsuback(packet, version) ==
    LET reasonCodes == Field(packet, "reasonCodes", <<>>)
    IN Frame("UNSUBACK", 0,
          <<Uint16(packet.packetId)>>
          \o PropertiesOf(packet, version, BuildUnsubackProperties)
          \o If(version = "5.0", [i \in DOMAIN reasonCodes |-> Uint8(reasonCodes[i])]))

EncodePingreq  == <<192, 0>>
EncodePingresp == <<208, 0>>

EncodeDisconnect(packet, version) ==
    LET reasonCode == Field(packet, "reasonCode", 0)
        hasProperties == HasProperties(packet,
            {"sessionExpiryInterval", "reasonString", "serverReference", "userProperties"})
    IN IF version = "3.1.1" THEN <<224, 0>>
       ELSE Frame("DISCONNECT", 0,
          If(reasonCode # 0 \/ hasProperties,
             <<Uint8(reasonCode)>>
             \o If(hasProperties,
                   EncodeProperties(BuildDisconnectProperties(packet.properties)))))

\* A reason code is followed by properties, if only empty ones.
EncodeAuth(packet) ==
    LET hasProperties == HasProperties(packet,
            {"authenticationMethod", "authenticationData", "reasonString", "userProperties"})
    IN Frame("AUTH", 0,
          If(packet.reasonCode # 0 \/ hasProperties,
             <<Uint8(packet.reasonCode)>>
             \o IF hasProperties THEN EncodeProperties(BuildAuthProperties(packet.properties))
                ELSE EncodeEmptyProperties))

\* A call that throws ends the encoding.
OrThrow(bytes) == IF Throws(bytes) THEN RangeError ELSE bytes

\* encodePacket(): the bytes, or RangeError when a call threw.
EncodePacket(packet, version) == OrThrow(
    CASE packet.type = "CONNECT"     -> EncodeConnect(packet, version)
      [] packet.type = "CONNACK"     -> EncodeConnack(packet, version)
      [] packet.type = "PUBLISH"     -> EncodePublish(packet, version)
      [] packet.type \in {"PUBACK", "PUBREC", "PUBREL", "PUBCOMP"} ->
                                        EncodePubAckType(packet, version)
      [] packet.type = "SUBSCRIBE"   -> EncodeSubscribe(packet, version)
      [] packet.type = "SUBACK"      -> EncodeSuback(packet, version)
      [] packet.type = "UNSUBSCRIBE" -> EncodeUnsubscribe(packet, version)
      [] packet.type = "UNSUBACK"    -> EncodeUnsuback(packet, version)
      [] packet.type = "PINGREQ"     -> EncodePingreq
      [] packet.type = "PINGRESP"    -> EncodePingresp
      [] packet.type = "DISCONNECT"  -> EncodeDisconnect(packet, version)
      [] packet.type = "AUTH"        -> EncodeAuth(packet))
=============================================================================
